---------------------------- MODULE Spec2Model ----------------------------
(***************************************************************************)
(* Model of the RenVM economic simulation (src/src/main.rs).               *)
(*                                                                         *)
(* Numbers.  The program computes in f64.  The model computes in fixed     *)
(* point: a USD amount is a whole number of dollars and a Percentage is a  *)
(* whole number of rate units of 0.0001 (so 0.003 is 30, 0.001 is 10 and   *)
(* the rebate step 0.0001 is 1).  A product or quotient that is not a      *)
(* whole number is rounded towards minus infinity when it is stored; a     *)
(* comparison against a quotient (x < s / 7.0) is decided exactly, by      *)
(* cross-multiplying.  The rounding noise of f64 (relative error 2^-53)    *)
(* is not modelled.                                                        *)
(***************************************************************************)
EXTENDS Integers, Sequences, FiniteSets, TLC

VARIABLES
    history,    \* the fold's accumulator: Vec<State>
    step,       \* number of iterations of the fold completed
    pc,         \* "run" while folding, "done" after the fold, "panic" on expect()
    ret         \* the last direct call of a model function: its argument and result

vars == <<history, step, pc, ret>>

-----------------------------------------------------------------------------
(* Units and constants of the program *)

\* Percentage (f64) in units of 0.0001: RateScale units make 1.0 (100%).
RateScale == 10000

num_steps == 180

\* take(7): the trailing window of both averages, and the divisor 7.0.
Window == 7

DaysPerAnnum == 365

\* 1 / roi for roi = 0.05.
RoiInverse == 20

MintVolumeBase == 4000000

BurnVolumeBase == 2000000

\* state.r >= 0.001, and the 0.001 of (state.r / 0.001), in rate units.
RebateThreshold == 10

\* 1_000_000.0 of arbitrage volume per 0.1% of rebate.
ArbitragePerThreshold == 1000000

\* mint_fee_curve: 0.003 in rate units.
MintFee == 30

\* burn_fee_curve: 0.001 in rate units.
BurnFee == 10

\* rebate_curve: the step 0.0001 in rate units.
RebateStep == 1

\* rebate_collected: f * 0.5 is f / RebateShareInverse.
RebateShareInverse == 2

\* state.f_unclaimed * 0.024451 is f_unclaimed * ClaimRatePpm / 10^6.
ClaimRatePpm == 24451

-----------------------------------------------------------------------------
(* Arithmetic helpers *)

Max(a, b) == IF a >= b THEN a ELSE b

Min(a, b) == IF a <= b THEN a ELSE b

\* floor(a * b / c) for c > 0, without forming the product a * b.
MulDiv(a, b, c) == (a \div c) * b + ((a % c) * b) \div c

-----------------------------------------------------------------------------
(* STATE *)

StateDefault ==
    [tvb |-> 0, tvl |-> 0, tvr |-> 0, mf |-> 0, bf |-> 0, r |-> 0,
     f_unclaimed |-> 0, f_claimed |-> 0, r_pool |-> 0]

\* history.iter().last().expect("missing initial state"): fails on an empty Vec.
latest_state_panics(h) == h = <<>>

latest_state(h) == h[Len(h)]

-----------------------------------------------------------------------------
(* EXTERNAL *)

\* history.windows(2).rev().take(n).map(|w| w[1].f_claimed - w[0].f_claimed).sum():
\* the sum of the up to n last epoch-to-epoch deltas, the window ending at h[i].
RECURSIVE SumClaimDeltas(_, _, _)
SumClaimDeltas(h, i, n) ==
    IF n = 0 \/ i < 2
    THEN 0
    ELSE (h[i].f_claimed - h[i - 1].f_claimed) + SumClaimDeltas(h, i - 1, n - 1)

\* Mutant of total_value_bonded: take(6), the last six deltas only.
total_value_bonded_six(h) ==
    LET sum == SumClaimDeltas(h, Len(h), Window - 1)
    IN  (sum * DaysPerAnnum * RoiInverse) \div Window

\* sum / 7.0 * 365.0 / roi
total_value_bonded(h) ==
    LET sum == SumClaimDeltas(h, Len(h), Window)
    IN  (sum * DaysPerAnnum * RoiInverse) \div Window

mint_volume(h) == MintVolumeBase

\* 1_000_000.0 * (state.r / 0.001)
ArbitrageCeiling(state) == MulDiv(ArbitragePerThreshold, state.r, RebateThreshold)

\* Mutant of ArbitrageVolume: the pool term left out of the minimum.
ArbitrageVolumeCeilingOnly(state) == ArbitrageCeiling(state)

\* (state.r_pool / state.r).min(1_000_000.0 * (state.r / 0.001)).  With state.r = 0
\* the f64 quotient is +inf or NaN (r_pool >= 0), and f64::min returns the ceiling.
ArbitrageVolume(state) ==
    IF state.r = 0
    THEN ArbitrageCeiling(state)
    ELSE Min(MulDiv(state.r_pool, RateScale, state.r), ArbitrageCeiling(state))

\* Mutant of ArbitrageApplies: the threshold taken as 0.
ArbitrageAppliesFromZero(state) == state.r >= 0

\* if state.r >= 0.001: the condition under which state.r_pool / state.r is evaluated.
ArbitrageApplies(state) == state.r >= RebateThreshold

\* Mutant of burn_volume: the threshold compared with > instead of >=.
burn_volume_strict(h) ==
    LET state == latest_state(h)
    IN  IF state.r > RebateThreshold
        THEN BurnVolumeBase + ArbitrageVolume(state)
        ELSE BurnVolumeBase

burn_volume(h) ==
    LET state == latest_state(h)
    IN  IF ArbitrageApplies(state)
        THEN BurnVolumeBase + ArbitrageVolume(state)
        ELSE BurnVolumeBase

-----------------------------------------------------------------------------
(* INTERNAL *)

\* Mutant of mint_fee_curve: the 0.1% its comment speaks of.
mint_fee_curve_comment(h) == 10

mint_fee_curve(h) == MintFee

\* Mutant of burn_fee_curve: the comparison the wrong way round.
burn_fee_curve_flipped(h) ==
    LET state == latest_state(h)
    IN  IF state.tvb < state.tvl THEN BurnFee ELSE 0

burn_fee_curve(h) ==
    LET state == latest_state(h)
    IN  IF state.tvl < state.tvb THEN BurnFee ELSE 0

\* history.iter().rev().take(n).map(|state| state.tvl - state.tvb).sum():
\* the sum of the gaps of the up to n last entries, h[i] the latest of them.
RECURSIVE SumGaps(_, _, _)
SumGaps(h, i, n) ==
    IF n = 0 \/ i < 1
    THEN 0
    ELSE (h[i].tvl - h[i].tvb) + SumGaps(h, i - 1, n - 1)

\* state.tvl - state.tvb < sum / 7.0, decided exactly.
GapBelowAverage(h) ==
    LET state == latest_state(h)
    IN  (state.tvl - state.tvb) * Window < SumGaps(h, Len(h), Window)

\* Mutant of rebate_curve: the floor .max(0.0) left out.
rebate_curve_nofloor(h) ==
    LET state == latest_state(h)
    IN  IF state.tvb < state.tvl
        THEN IF GapBelowAverage(h)
             THEN state.r - RebateStep
             ELSE state.r + RebateStep
        ELSE 0

rebate_curve(h) ==
    LET state == latest_state(h)
    IN  IF state.tvb < state.tvl
        THEN IF GapBelowAverage(h)
             THEN Max(state.r - RebateStep, 0)
             ELSE state.r + RebateStep
        ELSE 0

\* Mutant of rebate_collected: a quarter of the fees instead of a half.
rebate_collected_quarter(h, f) == f \div (2 * RebateShareInverse)

rebate_collected(h, f) == f \div RebateShareInverse

-----------------------------------------------------------------------------
(* MAIN *)

\* let r_paid = bv*r;
RebatePaid(bv, r) == MulDiv(bv, r, RateScale)

\* let f_collected = mv*mf + bv*bf;
FeesCollected(mv, mf, bv, bf) == (mv * mf + bv * bf) \div RateScale

\* Mutant of Claim: the decimal point two places off, 2.4451.
ClaimMisplacedPoint(f_unclaimed) == MulDiv(f_unclaimed, ClaimRatePpm, 1000) \div 10

\* let claim = state.f_unclaimed*0.024451;
Claim(f_unclaimed) == MulDiv(f_unclaimed, ClaimRatePpm, 1000) \div 1000

\* Mutant of PoolUpdate: the clamp left out.
PoolUpdateNoClamp(r_pool, r_collected, r_paid) == r_pool + r_collected - r_paid

\* Mutant of PoolUpdate: the rebate paid added instead of subtracted.
PoolUpdateSignSlip(r_pool, r_collected, r_paid) == Max(r_pool + r_collected + r_paid, 0)

\* state.r_pool = (state.r_pool + r_collected - r_paid).max(0.0);
PoolUpdate(r_pool, r_collected, r_paid) == Max(r_pool + r_collected - r_paid, 0)

\* The body of the fold's closure up to history.push(state): the state it pushes,
\* computed from the history h it is given (h is not empty).
Epoch(h) ==
    LET state       == latest_state(h)
        mv          == mint_volume(h)
        bv          == burn_volume(h)
        mf          == mint_fee_curve(h)
        bf          == burn_fee_curve(h)
        r           == rebate_curve(h)
        r_paid      == RebatePaid(bv, r)
        f_gross     == FeesCollected(mv, mf, bv, bf)
        r_collected == rebate_collected(h, f_gross)
        f_collected == f_gross - r_collected
        claim       == Claim(state.f_unclaimed)
    IN  [tvb         |-> total_value_bonded(h),
         tvl         |-> state.tvl + (mv - bv),
         tvr         |-> state.tvr + r_collected,
         mf          |-> mf,
         bf          |-> bf,
         r           |-> r,
         f_unclaimed |-> state.f_unclaimed + (f_collected - claim),
         f_claimed   |-> state.f_claimed + claim,
         r_pool      |-> PoolUpdate(state.r_pool, r_collected, r_paid)]

\* Mutant of Push: the latest entry is updated in place (no copy) and then pushed.
PushAliased(h, state) == Append([h EXCEPT ![Len(h)] = state], state)

\* history.push(state); history
Push(h, state) == Append(h, state)

\* No model function has been called directly.
NoCall == [fn |-> "none", arg |-> <<>>, panic |-> FALSE, val |-> 0]

\* Mutant of Init: the fold seeded with an empty Vec.
InitEmpty ==
    /\ history = <<>>
    /\ step = 0
    /\ pc = "run"
    /\ ret = NoCall

\* vec!(State::default()), before the first iteration of the fold.
Init ==
    /\ history = <<StateDefault>>
    /\ step = 0
    /\ pc = "run"
    /\ ret = NoCall

\* Mutant of Step: an inclusive range, 0..=num_steps.
StepInclusiveRange ==
    /\ pc = "run"
    /\ step <= num_steps
    /\ IF latest_state_panics(history)
       THEN /\ pc' = "panic"
            /\ UNCHANGED <<history, step>>
       ELSE /\ history' = Push(history, Epoch(history))
            /\ step' = step + 1
            /\ pc' = pc
    /\ UNCHANGED ret

\* Mutant of Step: a copy of the latest state is pushed first and the models are
\* called on the history that already holds the entry under construction.
StepSeesItself ==
    /\ pc = "run"
    /\ step < num_steps
    /\ IF latest_state_panics(history)
       THEN /\ pc' = "panic"
            /\ UNCHANGED <<history, step>>
       ELSE /\ history' = Push(history, Epoch(Push(history, latest_state(history))))
            /\ step' = step + 1
            /\ pc' = pc
    /\ UNCHANGED ret

\* One iteration of (0..num_steps).fold(...): the closure runs on the accumulator.
Step ==
    /\ pc = "run"
    /\ step < num_steps
    /\ IF latest_state_panics(history)
       THEN /\ pc' = "panic"
            /\ UNCHANGED <<history, step>>
       ELSE /\ history' = Push(history, Epoch(history))
            /\ step' = step + 1
            /\ pc' = pc
    /\ UNCHANGED ret

\* The range is exhausted: drop(history), println!("done").
Finish ==
    /\ pc = "run"
    /\ step = num_steps
    /\ pc' = "done"
    /\ UNCHANGED <<history, step, ret>>

Next == Step \/ Finish

Spec == Init /\ [][Next]_vars

\* The fold is a loop of one thread: it keeps running until the range is exhausted.
LiveSpec == Spec /\ WF_vars(Next)

-----------------------------------------------------------------------------
(* The model functions called directly, on histories other than the run's own. *)
(* A history is built from sample states and extended by the driver; each      *)
(* call records its argument and its result in ret.                            *)

\* Bounds of the histories the functions are called on.
MaxInit == 3

MaxGrow == 8

SampleStates ==
    { StateDefault,
      \* tvl < tvb, r just below the threshold
      [tvb |-> 5000000, tvl |-> 1000000, tvr |-> 12000, mf |-> 30, bf |-> 10, r |-> 9,
       f_unclaimed |-> 11000, f_claimed |-> 1000, r_pool |-> 6000],
      \* a wide gap, r at the threshold, a pool that covers more than the ceiling
      [tvb |-> 0, tvl |-> 70000000, tvr |-> 105000, mf |-> 30, bf |-> 0, r |-> 10,
       f_unclaimed |-> 100000, f_claimed |-> 5000, r_pool |-> 5000],
      \* a middle gap, r at 100%, a pool that covers less than the ceiling
      [tvb |-> 1000000, tvl |-> 7000000, tvr |-> 6300, mf |-> 30, bf |-> 0, r |-> 10000,
       f_unclaimed |-> 6000, f_claimed |-> 300, r_pool |-> 6000],
      \* a narrow gap, r at the floor
      [tvb |-> 1300000, tvl |-> 3300000, tvr |-> 6070, mf |-> 30, bf |-> 0, r |-> 0,
       f_unclaimed |-> 6000, f_claimed |-> 70, r_pool |-> 6000] }

SampleHistories == UNION { [1..n -> SampleStates] : n \in 0..MaxInit }

FnInit ==
    /\ history \in SampleHistories
    /\ step = 0
    /\ pc = "run"
    /\ ret = NoCall

FnStep == step < MaxGrow /\ Step

CallTotalValueBonded ==
    /\ pc = "run"
    /\ ret' = [fn |-> "total_value_bonded", arg |-> history, panic |-> FALSE,
               val |-> total_value_bonded(history)]
    /\ UNCHANGED <<history, step, pc>>

CallBurnVolume ==
    /\ pc = "run"
    /\ ret' = [fn |-> "burn_volume", arg |-> history,
               panic |-> latest_state_panics(history),
               val |-> IF latest_state_panics(history) THEN 0 ELSE burn_volume(history)]
    /\ UNCHANGED <<history, step, pc>>

CallBurnFeeCurve ==
    /\ pc = "run"
    /\ ret' = [fn |-> "burn_fee_curve", arg |-> history,
               panic |-> latest_state_panics(history),
               val |-> IF latest_state_panics(history) THEN 0 ELSE burn_fee_curve(history)]
    /\ UNCHANGED <<history, step, pc>>

CallRebateCurve ==
    /\ pc = "run"
    /\ ret' = [fn |-> "rebate_curve", arg |-> history,
               panic |-> latest_state_panics(history),
               val |-> IF latest_state_panics(history) THEN 0 ELSE rebate_curve(history)]
    /\ UNCHANGED <<history, step, pc>>

FnNext ==
    \/ FnStep
    \/ CallTotalValueBonded
    \/ CallBurnVolume
    \/ CallBurnFeeCurve
    \/ CallRebateCurve

FnSpec == FnInit /\ [][FnNext]_vars

-----------------------------------------------------------------------------
(* Claims *)

\* history[0..n] of the program: the entries before entry i (entries count from 1).
Before(i) == SubSeq(history, 1, i - 1)

\* C1: in every state of every run (genesis and each state the driver appends),
\* r_pool >= 0.
C1_PoolNonNegative ==
    \A i \in 1..Len(history) : history[i].r_pool >= 0

\* C1 witness: an epoch in which the rebate paid exceeds the pool plus what was
\* collected, so that the clamp sets r_pool to 0.
C1_ClampActs ==
    \E i \in 2..Len(history) :
        /\ history[i - 1].r_pool + (history[i].tvr - history[i - 1].tvr)
             - RebatePaid(burn_volume(Before(i)), history[i].r) < 0
        /\ history[i].r_pool = 0

\* The entries of the history that the driver appended (the entries before them
\* are the seed of the fold: the genesis state in the program's run).
Appended == (Len(history) - step + 1)..Len(history)

\* C2: in every state the driver appends, at most one of bf and r is non-zero:
\* bf > 0 implies r = 0 and r > 0 implies bf = 0.
C2_FeeRebateExclusive ==
    \A i \in Appended \ {1} :
        /\ history[i].bf > 0 => history[i].r = 0
        /\ history[i].r > 0 => history[i].bf = 0

\* C2 witness: the driver has appended a state with a burn fee and no rebate, and
\* a state with a rebate and no burn fee.
C2_BothCases ==
    /\ \E i \in Appended : history[i].bf > 0 /\ history[i].r = 0
    /\ \E i \in Appended : history[i].r > 0 /\ history[i].bf = 0

\* C3: the run terminates after exactly num_steps steps, with no early exit and no
\* failure; after k completed steps the history has k + 1 entries, the first of
\* which is the all-zero genesis state, so it ends with num_steps + 1 entries.
C3_RunsToCompletion ==
    /\ [](/\ pc \in {"run", "done"}
          /\ step <= num_steps
          /\ Len(history) = step + 1
          /\ history[1] = StateDefault
          /\ pc = "done" => step = num_steps /\ Len(history) = num_steps + 1)
    /\ <>(pc = "done")

\* C3 witness: the run has ended with num_steps + 1 entries.
C3_Completed ==
    pc = "done" /\ step = num_steps /\ Len(history) = num_steps + 1

\* C4: from the all-zero genesis state the first step appends exactly tvb = 0,
\* tvl = 2,000,000, tvr = 6,000, mf = 0.003, bf = 0, r = 0, f_unclaimed = 6,000,
\* f_claimed = 0, r_pool = 6,000.
C4_FirstEpoch ==
    step >= 1 =>
        history[2] = [tvb |-> 0, tvl |-> 2000000, tvr |-> 6000, mf |-> 30, bf |-> 0,
                      r |-> 0, f_unclaimed |-> 6000, f_claimed |-> 0, r_pool |-> 6000]

\* C4 witness: the first step has just been taken from genesis.
C4_AfterFirstStep ==
    step = 1 /\ Len(history) = 2 /\ history[1] = StateDefault

\* The number of entries of h that a trailing window of 7 entries holds.
EntriesPresent(h) == Min(Len(h), Window)

\* The number of epoch-to-epoch deltas of h that a trailing window of 7 deltas holds.
DeltasPresent(h) == Min(Len(h) - 1, Window)

\* C5: when the history is shorter than the window, the average is the sum divided
\* by the number of terms present, not by 7: the tvb a step writes is the sum of
\* the f_claimed deltas present, divided by their number, times 365 / 0.05, and
\* the r it writes compares the latest gap with the sum of the gaps present
\* divided by their number.
C5_ShortWindowAverage ==
    \A i \in 2..Len(history) :
        LET h     == Before(i)
            state == latest_state(h)
            gap   == state.tvl - state.tvb
        IN  /\ (Len(h) >= 2 /\ Len(h) - 1 < Window) =>
                   history[i].tvb =
                       (SumClaimDeltas(h, Len(h), Window) * DaysPerAnnum * RoiInverse)
                           \div DeltasPresent(h)
            /\ (Len(h) < Window /\ state.tvb < state.tvl) =>
                   history[i].r =
                       IF gap * EntriesPresent(h) < SumGaps(h, Len(h), Window)
                       THEN Max(state.r - RebateStep, 0)
                       ELSE state.r + RebateStep

\* C6: rebate_curve returns 0 when s.tvl <= s.tvb; when s.tvb < s.tvl it returns
\* max(0, s.r - 0.0001) if the latest gap is strictly smaller than the average gap
\* over the trailing 7 entries (the latest included; the entries present when there
\* are fewer), and s.r + 0.0001 otherwise, with no upper clamp.
C6_RebateCurve ==
    (ret.fn = "rebate_curve" /\ ~ret.panic) =>
        LET h     == ret.arg
            state == latest_state(h)
            gap   == state.tvl - state.tvb
        IN  ret.val =
                IF state.tvl <= state.tvb
                THEN 0
                ELSE IF gap * EntriesPresent(h) < SumGaps(h, Len(h), Window)
                     THEN Max(state.r - 1, 0)
                     ELSE state.r + 1

\* C6 restricted to histories of at least 7 entries, where the window is full.
C6_FullWindow ==
    (ret.fn = "rebate_curve" /\ ~ret.panic /\ Len(ret.arg) >= Window) => C6_RebateCurve

\* C7: for a non-empty history with latest state s, burn_volume returns exactly
\* 2,000,000 when s.r < 0.001 and 2,000,000 + min(s.r_pool / s.r,
\* 1,000,000 * (s.r / 0.001)) when s.r >= 0.001.
C7_BurnVolume ==
    (ret.fn = "burn_volume" /\ ret.arg # <<>>) =>
        LET s == ret.arg[Len(ret.arg)]
        IN  /\ ~ret.panic
            /\ s.r < 10 => ret.val = 2000000
            /\ s.r >= 10 =>
                   ret.val = 2000000 + Min((s.r_pool * 10000) \div s.r, 100000 * s.r)

\* C7 witness: a call with r >= 0.001 in which the pool, not the ceiling, limits
\* the added volume.
C7_PoolLimited ==
    /\ ret.fn = "burn_volume"
    /\ ret.arg # <<>>
    /\ LET s == ret.arg[Len(ret.arg)]
       IN  /\ s.r >= 10
           /\ s.r_pool > 0
           /\ (s.r_pool * 10000) \div s.r < 100000 * s.r
           /\ ret.val > 2000000

\* C8: total_value_bonded returns 0 for a history of fewer than 2 entries, and for
\* a history of at least 8 entries it returns (f_claimed of the latest entry minus
\* f_claimed of the entry 7 positions earlier) / 7 * 365 / 0.05.
C8_TotalValueBonded ==
    ret.fn = "total_value_bonded" =>
        LET h == ret.arg
            n == Len(h)
        IN  /\ ~ret.panic
            /\ n < 2 => ret.val = 0
            /\ n >= 8 =>
                   ret.val = ((h[n].f_claimed - h[n - 7].f_claimed) * 365 * 20) \div 7

\* C8 witness: a call on a history of at least 8 entries whose last 7 deltas are
\* not all zero.
C8_LongHistory ==
    /\ ret.fn = "total_value_bonded"
    /\ Len(ret.arg) >= 8
    /\ ret.arg[Len(ret.arg)].f_claimed # ret.arg[Len(ret.arg) - 7].f_claimed
    /\ ret.val # 0

\* C9: each step computes the new state from the history that excludes it: mf, bf,
\* r, tvb and the volumes behind tvl of epoch n+1 are the model results on
\* history[0..n]; bf of epoch n+1 is 0.001 exactly when tvl < tvb in epoch n, r of
\* epoch n+1 is non-zero only when tvb < tvl in epoch n, and tvb of epoch n+1 is
\* decided by f_claimed of epochs <= n.
C9_Causality ==
    \A i \in Appended \ {1} :
        LET h    == Before(i)
            prev == history[i - 1]
            old  == history[Max(1, i - 1 - Window)]
        IN  /\ history[i].mf = mint_fee_curve(h)
            /\ history[i].bf = burn_fee_curve(h)
            /\ history[i].r = rebate_curve(h)
            /\ history[i].tvb = total_value_bonded(h)
            /\ history[i].tvl = prev.tvl + mint_volume(h) - burn_volume(h)
            /\ history[i].bf \in {0, 10}
            /\ history[i].bf = 10 <=> prev.tvl < prev.tvb
            /\ history[i].r # 0 => prev.tvb < prev.tvl
            /\ history[i].tvb = ((prev.f_claimed - old.f_claimed) * 365 * 20) \div 7

\* C9 witness: the driver has written a burn fee after an epoch with tvl < tvb,
\* and a non-zero r and a non-zero tvb from a history longer than the window.
C9_BothCases ==
    /\ \E i \in Appended \ {1} :
           history[i].bf = 10 /\ history[i - 1].tvl < history[i - 1].tvb
    /\ \E i \in Appended \ {1} :
           /\ i - 1 > Window
           /\ history[i].r # 0
           /\ history[i].tvb # 0

\* C10: the history is append-only: a step changes it only by adding one new last
\* entry, and every earlier entry is the same before and after the step (and so
\* after every later step).
C10_AppendOnly ==
    [][/\ Len(history') \in {Len(history), Len(history) + 1}
       /\ \A i \in 1..Len(history) : history'[i] = history[i]]_vars

\* C10 witness: steps have been taken and the earlier entries are in place.
C10_AfterSteps ==
    /\ step >= 2
    /\ Len(history) = step + 1
    /\ history[1] = StateDefault
    /\ history[2].tvl = 2000000

\* The extra burn volume of the epoch that wrote entry i: burn_volume(h) - 2_000_000.
ExtraBurn(i) == burn_volume(Before(i)) - BurnVolumeBase

\* C12 as stated: in every epoch whose latest state has r >= 0.001, the rebate on
\* the extra burn volume at the rate rebate_curve(h) set for that epoch (the r of
\* the new entry) does not exceed the latest state's r_pool.
C12_RebateWithinPool ==
    \A i \in Appended \ {1} :
        history[i - 1].r >= RebateThreshold
            => ExtraBurn(i) * rebate_curve(Before(i)) <= history[i - 1].r_pool * RateScale

\* C12 amended: in every epoch whose latest state s has r >= 0.001, the rebate on
\* the extra burn volume at the rate s.r that burn_volume reads does not exceed
\* s.r_pool.
C12_RebateAtLatestRateWithinPool ==
    \A i \in Appended \ {1} :
        history[i - 1].r >= RebateThreshold
            => ExtraBurn(i) * history[i - 1].r <= history[i - 1].r_pool * RateScale

\* C12 witness: an epoch with r >= 0.001 in which the pool, not the ceiling, set
\* the extra burn volume, and the rate went up in that epoch.
C12_PoolLimitedEpoch ==
    \E i \in Appended \ {1} :
        /\ history[i - 1].r >= RebateThreshold
        /\ ExtraBurn(i) > 0
        /\ ExtraBurn(i) < ArbitrageCeiling(history[i - 1])
        /\ history[i].r > history[i - 1].r

\* C13: the history is never empty where a model or the driver reads its latest
\* state, and latest_state never fails with "missing initial state".
C13_HistoryNeverEmpty ==
    /\ ~latest_state_panics(history)
    /\ pc # "panic"

\* C13 witness: the driver has read the latest state and run the models on it.
C13_ModelsCalled ==
    /\ step >= 1
    /\ pc = "run"
    /\ latest_state(history).tvr = latest_state(Before(Len(history))).tvr + 6000

\* C14: r is never negative, bf is 0 or 0.001, and every state after genesis has
\* mf = 0.003; the three stay inside [0, 1).
C14_RatesInRange ==
    /\ \A i \in 1..Len(history) :
           /\ history[i].r >= 0
           /\ history[i].bf \in {0, BurnFee}
           /\ history[i].bf < RateScale
           /\ history[i].mf \in 0..(RateScale - 1)
    /\ \A i \in Appended \ {1} : history[i].mf = MintFee

\* C14 witness: the floor of the rebate acted (r stayed 0 where the curve stepped
\* down from 0), and a burn fee of 0.001 was written.
C14_FloorActed ==
    /\ \E i \in Appended \ {1} :
           /\ history[i - 1].r = 0
           /\ history[i - 1].tvb < history[i - 1].tvl
           /\ GapBelowAverage(Before(i))
           /\ history[i].r = 0
    /\ \E i \in Appended \ {1} : history[i].bf = BurnFee

\* The gross fees of the epoch that wrote entry i: mv*mf + bv*bf.
GrossFees(i) ==
    FeesCollected(mint_volume(Before(i)), history[i].mf,
                  burn_volume(Before(i)), history[i].bf)

\* C15: f_unclaimed + f_claimed = tvr in every state, and each step raises both
\* sides by exactly half of the epoch's gross fees.
C15_FeeConservation ==
    /\ \A i \in 1..Len(history) :
           history[i].f_unclaimed + history[i].f_claimed = history[i].tvr
    /\ \A i \in Appended \ {1} :
           /\ 2 * (history[i].tvr - history[i - 1].tvr) = GrossFees(i)
           /\ 2 * ((history[i].f_unclaimed + history[i].f_claimed)
                   - (history[i - 1].f_unclaimed + history[i - 1].f_claimed))
                  = GrossFees(i)

\* C15 witness: epochs with and without burn fees in the gross fees, after a claim
\* has moved fees from f_unclaimed to f_claimed.
C15_BothFees ==
    /\ \E i \in Appended \ {1} :
           history[i].bf = BurnFee /\ history[i].f_claimed > history[i - 1].f_claimed
    /\ \E i \in Appended \ {1} :
           history[i].bf = 0 /\ history[i].f_claimed > history[i - 1].f_claimed

\* C16: r_pool <= tvr in every state, the rebate paid in an epoch being never
\* negative.
C16_PoolWithinRewards ==
    /\ \A i \in 1..Len(history) : history[i].r_pool <= history[i].tvr
    /\ \A i \in Appended \ {1} :
           RebatePaid(burn_volume(Before(i)), history[i].r) >= 0

\* C16 witness: a rebate has been paid, leaving the pool strictly below tvr.
C16_RebatePaid ==
    \E i \in Appended \ {1} :
        /\ RebatePaid(burn_volume(Before(i)), history[i].r) > 0
        /\ history[i].r_pool > 0
        /\ history[i].r_pool < history[i].tvr

\* C17: f_unclaimed is never negative, f_claimed never decreases from one epoch to
\* the next, and so tvb is never negative.
C17_ClaimsMonotone ==
    /\ \A i \in 1..Len(history) :
           /\ history[i].f_unclaimed >= 0
           /\ history[i].tvb >= 0
    /\ \A i \in 2..Len(history) :
           history[i].f_claimed >= history[i - 1].f_claimed

\* C17 witness: fees have been claimed over a full window and tvb is positive.
C17_FeesClaimed ==
    /\ Len(history) > Window + 1
    /\ \A i \in 3..Len(history) : history[i].f_claimed > history[i - 1].f_claimed
    /\ latest_state(history).tvb > 0
    /\ latest_state(history).f_unclaimed > 0

\* C18: burn_volume divides by r only where r >= 0.001, so the divisor is strictly
\* positive; the added volume is never negative and burn_volume is at least
\* 2_000_000, for every state of the history taken as the latest one.
C18_NoDivisionByZero ==
    \A i \in 1..Len(history) :
        LET state == history[i]
        IN  /\ ArbitrageApplies(state) => state.r > 0
            /\ ArbitrageApplies(state) => ArbitrageVolume(state) >= 0
            /\ burn_volume(SubSeq(history, 1, i)) >= BurnVolumeBase

\* C18 witness: the quotient r_pool / r was evaluated and set the burn volume, and
\* states with r = 0 took the branch without the division.
C18_QuotientEvaluated ==
    /\ \E i \in Appended \ {1} :
           /\ ArbitrageApplies(history[i - 1])
           /\ ExtraBurn(i) = MulDiv(history[i - 1].r_pool, RateScale, history[i - 1].r)
           /\ ExtraBurn(i) > 0
    /\ \E i \in Appended \ {1} :
           history[i - 1].r = 0 /\ ExtraBurn(i) = 0

=============================================================================
